---- MODULE Spec2Model ----
(***************************************************************************)
(* A model of the transition engine of state-machine-js (src/src/main.js): *)
(* StateMachine (registry, current/previous state, cancellation flag,      *)
(* action queue, history) and StateMachine.State (transition table and     *)
(* the three notification channels).                                       *)
(*                                                                         *)
(* The engine is synchronous.  A notification handler is code of the       *)
(* caller that runs inside a dispatch and may call back into the machine,  *)
(* so _transitionTo is split at its dispatches: pc names the dispatch that *)
(* is executing, and while it executes the handler steps (action, cancel,  *)
(* removeState called from a handler) may happen.  Handlers here call      *)
(* action(), cancel() and removeState(); start() is called by the          *)
(* outermost caller only.                                                  *)
(***************************************************************************)
EXTENDS Integers, Sequences, FiniteSets, TLC

\* ------------------------------------------------------------ bounds
\* The most entries actionQueue holds in the model.
MaxQueue == 3
\* The most calls of start() and action() in one behaviour.
MaxCalls == 4

\* ------------------------------------------------------------ values
Null == "null"
Undefined == "undefined"

Names == {"s1", "s2"}
Actions == {"a", "b"}
Data == {"d1", "d2"}

\* A State object is identified by its place in objs; NoState is the null or
\* undefined reference to a State.
NoState == 0

\* Truthiness of a string-valued property (a target name, or none).
Truthy(v) == v \notin {Null, Undefined}

VARIABLES
    objs,               \* the State objects ever registered, by id
    states,             \* this._states: name -> id, NoState where absent
    initial,            \* this._initial
    currentState,       \* this._currentState
    previousState,      \* this._previousState
    cancelled,          \* this._cancelled (null, which is falsy, is FALSE)
    transitionComplete, \* this._transitionComplete
    actionQueue,        \* this._actionQueue
    history,            \* this._history
    pc,                 \* where the running call stands ("idle": no call runs)
    nextState,          \* _transitionTo's argument nextState
    data,               \* _transitionTo's argument data
    action,             \* _transitionTo's argument action
    trace,              \* the notifications the latest transition dispatched
    inFlight,           \* transitions whose dispatches have begun and not ended
    outcome,            \* how the latest transition ended
    startCur,           \* currentState when the latest transition began
    startPrev,          \* previousState when the latest transition began
    startHist,          \* history when the latest transition began
    cancelIn,           \* the dispatches of the latest transition that called cancel()
    calls,              \* start() and action() calls made so far
    outerCall,          \* the latest call made by the outermost caller
    error,              \* what the latest outermost call raised
    lastDequeued,       \* submission number of the entry shifted last
    lastDropped,        \* the entry shifted last was dropped, not handed to action()
    commits,            \* transitions committed so far
    leftBefore,         \* the name of the state each commit but the first left
    startReturned       \* a start() call has returned without raising

machineVars == <<objs, states, initial, currentState, previousState, cancelled,
                 transitionComplete, actionQueue, history>>
frameVars == <<pc, nextState, data, action>>
ghostVars == <<trace, inFlight, outcome, startCur, startPrev, startHist, cancelIn,
               calls, outerCall, error, lastDequeued,
               lastDropped, commits, leftBefore, startReturned>>
vars == <<machineVars, frameVars, ghostVars>>

\* ------------------------------------------------------------ State
\* A State keeps, for reference, the descriptor create() built it from.
NoConfig == [name |-> Undefined, transitions |-> <<>>, callbacks |-> {}, initial |-> FALSE]

NoTransitions == [a \in Actions |-> Undefined]

\* new StateMachine.State(name)
NewState(name) ==
    [name |-> name, transitions |-> NoTransitions,
     onChange |-> FALSE, onEnter |-> FALSE, onExit |-> FALSE,
     config |-> NoConfig]

getTarget(state, a) == state.transitions[a]

\* An addTransition that overwrites the target of a known action.
addTransition_Overwrite(state, a, target) ==
    [state EXCEPT !.transitions[a] = target]

\* state.addTransition(action, target)
addTransition(state, a, target) ==
    IF Truthy(getTarget(state, a))
    THEN state
    ELSE [state EXCEPT !.transitions[a] = target]

removeTransition(state, a) == [state EXCEPT !.transitions[a] = Null]

\* ------------------------------------------------------------ registry
\* A machine's configuration: the part create() and removeState() work on.
EmptyMachine ==
    [objs |-> <<>>, states |-> [n \in Names |-> NoState], initial |-> NoState]

getTotal(m) == Cardinality({n \in Names : m.states[n] # NoState})

\* An _addState that keeps the first initial state whatever is registered later.
_addState_FirstKept(m, state, isInitial) ==
    IF m.states[state.name] # NoState
    THEN m
    ELSE LET id == Len(m.objs) + 1
         IN  [objs |-> Append(m.objs, state),
              states |-> [m.states EXCEPT ![state.name] = id],
              initial |-> IF m.initial = NoState THEN id ELSE m.initial]

\* _addState(state, isInitial)
_addState(m, state, isInitial) ==
    IF m.states[state.name] # NoState
    THEN m
    ELSE LET id == Len(m.objs) + 1
         IN  [objs |-> Append(m.objs, state),
              states |-> [m.states EXCEPT ![state.name] = id],
              initial |-> IF isInitial THEN id ELSE m.initial]

\* The forEach of create(): one round per listed transition.
RECURSIVE createTransitions(_, _, _)
createTransitions(state, config, i) ==
    IF i > Len(config.transitions)
    THEN state
    ELSE LET t == config.transitions[i]
             s1 == addTransition(state, t.action, t.target)
             s2 == [s1 EXCEPT
                      !.onChange = @ \/ ("onChange" \in config.callbacks),
                      !.onEnter = @ \/ ("onEnter" \in config.callbacks),
                      !.onExit = @ \/ ("onExit" \in config.callbacks)]
         IN  createTransitions(s2, config, i + 1)

\* create(config) for one descriptor.
create(m, config) ==
    LET built == createTransitions(NewState(config.name), config, 1)
        state == [built EXCEPT !.config = config]
        isInitial == (getTotal(m) = 0) \/ config.initial
    IN  _addState(m, state, isInitial)

\* create(config) for an array of descriptors.
RECURSIVE createAll(_, _)
createAll(m, configs) ==
    IF configs = <<>>
    THEN m
    ELSE createAll(create(m, Head(configs)), Tail(configs))

removeState(sts, stateName) == [sts EXCEPT ![stateName] = NoState]

\* ------------------------------------------------------------ inputs
AllCallbacks == {"onChange", "onEnter", "onExit"}

T(a, target) == [action |-> a, target |-> target]

Desc(name, transitions, callbacks, isInitial) ==
    [name |-> name, transitions |-> transitions, callbacks |-> callbacks,
     initial |-> isInitial]

\* The descriptor arrays the machines of the model are created from.
Configs ==
    { << Desc("s1", <<T("a", "s2"), T("b", "s1")>>, AllCallbacks, FALSE),
         Desc("s2", <<T("a", "s1")>>, AllCallbacks, FALSE) >>,
      << Desc("s1", <<T("a", "s2"), T("b", "s1")>>, AllCallbacks, FALSE) >>,
      << Desc("s1", <<>>, AllCallbacks, FALSE),
         Desc("s2", <<T("a", "s1"), T("a", "s2"), T("b", "s2")>>, {"onExit"}, TRUE) >>,
      << >> }

\* ------------------------------------------------------------ engine
\* One dispatched notification: the channel (a State's or the machine's), its
\* kind and the arguments handed to the listeners.
Note(channel, kind, owner, state, d, a) ==
    [channel |-> channel, kind |-> kind, owner |-> owner,
     state |-> state, data |-> d, action |-> a]

QueueEntry(a, d, id) == [action |-> a, data |-> d, id |-> id]

\* A push at the head of the queue instead of its tail.
QueuePush_AtHead(q, e) == <<e>> \o q

\* this._actionQueue.push(...)
QueuePush(q, e) == Append(q, e)

\* An action() without the test: every action is resolved at once.
ShouldQueue_Never(complete) == FALSE

\* The test of action(): is a transition being processed?
ShouldQueue(complete) == ~complete

\* A lookup that falls back on a registered state when there is no target.
Lookup_Fallback(sts, target) == IF Truthy(target) THEN sts[target] ELSE sts["s1"]

\* this._states[ newStateTarget ]
Lookup(sts, target) == IF Truthy(target) THEN sts[target] ELSE NoState

\* A _transitionTo without the checkpoint after the exit notifications.
CancelledOnExit_Skipped(c) == FALSE

\* The test "Has transition been cancelled on Exit guard?"
CancelledOnExit(c) == c

\* A _transitionTo without the checkpoint after the enter notifications.
CancelledOnEnter_Skipped(c) == FALSE

\* The test "Has transition been cancelled on Enter guard?"
CancelledOnEnter(c) == c

\* What a call action(a, d) does with the queue q: queue the action, raise
\* (currentState is null), begin a transition, or return having done nothing.
actionResult(q, a, d, id) ==
    IF ShouldQueue(transitionComplete)
    THEN [kind |-> "queued", queue |-> QueuePush(q, QueueEntry(a, d, id)),
          newState |-> NoState]
    ELSE IF currentState = NoState
    THEN [kind |-> "throw", queue |-> q, newState |-> NoState]
    ELSE LET newStateTarget == getTarget(objs[currentState], a)
             newState == Lookup(states, newStateTarget)
         IN  IF newState # NoState
             THEN [kind |-> "transition", queue |-> q, newState |-> newState]
             ELSE [kind |-> "return", queue |-> q, newState |-> NoState]

TransitionGhosts == <<trace, inFlight, outcome, startCur, startPrev, startHist, cancelIn>>

\* A _transitionTo that leaves the flag as it finds it.
ResetCancelled_Kept == cancelled

\* this._cancelled = false, at the head of _transitionTo
ResetCancelled == FALSE

\* _transitionTo up to its first dispatch.
Begin(next, d, a) ==
    /\ transitionComplete' = FALSE
    /\ cancelled' = ResetCancelled
    /\ nextState' = next
    /\ data' = d
    /\ action' = a
    /\ inFlight' = inFlight + 1
    /\ outcome' = "running"
    /\ startCur' = currentState
    /\ startPrev' = previousState
    /\ startHist' = history
    /\ cancelIn' = {}
    /\ IF currentState # NoState
       THEN /\ pc' = "exitState"
            /\ trace' = <<Note("state", "exit", currentState, currentState, d, a)>>
       ELSE /\ pc' = "enterState"
            /\ trace' = <<Note("state", "enter", next, next, d, a)>>
    /\ UNCHANGED <<objs, states, initial, currentState, previousState, history>>

\* The effect of a call action(a, d) whose result is r; retPc is where control
\* is when the call returns without a transition.
Apply(r, retPc, a, d) ==
    /\ actionQueue' = r.queue
    /\ IF r.kind = "transition"
       THEN Begin(r.newState, d, a)
       ELSE /\ pc' = IF r.kind = "throw" THEN "idle" ELSE retPc
            /\ UNCHANGED <<objs, states, initial, currentState, previousState,
                           cancelled, transitionComplete, history,
                           nextState, data, action, TransitionGhosts>>

\* A start() call has returned without raising, now or before.
Returned ==
    startReturned' =
        (startReturned \/ (pc' = "idle" /\ outerCall'.op = "start" /\ error' = "none"))

Idle == pc = "idle"

\* ------------------------------------------------------------ the caller
\* start()
Start ==
    /\ Idle
    /\ calls < MaxCalls
    /\ calls' = calls + 1
    /\ outerCall' = [op |-> "start", action |-> Undefined, id |-> calls + 1,
                     kind |-> IF initial = NoState THEN "throw" ELSE "transition"]
    /\ IF initial = NoState
       THEN /\ error' = "NoStates"
            /\ UNCHANGED <<machineVars, frameVars, TransitionGhosts>>
       ELSE /\ error' = "none"
            /\ Begin(initial, Null, Undefined)
            /\ UNCHANGED actionQueue
    /\ UNCHANGED <<lastDequeued, lastDropped, commits, leftBefore>>
    /\ Returned

\* action(a, d) called by the outermost caller
Action(a, d) ==
    /\ Idle
    /\ calls < MaxCalls
    /\ transitionComplete \/ Len(actionQueue) < MaxQueue
    /\ calls' = calls + 1
    /\ LET r == actionResult(actionQueue, a, d, calls + 1)
       IN  /\ outerCall' = [op |-> "action", action |-> a, id |-> calls + 1,
                            kind |-> r.kind]
           /\ Apply(r, "idle", a, d)
           /\ error' = IF r.kind = "throw" THEN "TypeError" ELSE "none"
    /\ UNCHANGED <<lastDequeued, lastDropped, commits, leftBefore>>
    /\ Returned

\* cancel() called by the outermost caller
Cancel ==
    /\ Idle
    /\ cancelled' = TRUE
    /\ outerCall' = [op |-> "cancel", action |-> Undefined, id |-> calls,
                     kind |-> "return"]
    /\ error' = "none"
    /\ UNCHANGED <<objs, states, initial, currentState, previousState,
                   transitionComplete, actionQueue, history, frameVars,
                   TransitionGhosts, calls, lastDequeued, lastDropped, commits, leftBefore>>
    /\ Returned

\* removeState(stateName) called by the outermost caller
RemoveState(stateName) ==
    /\ Idle
    /\ states' = removeState(states, stateName)
    /\ outerCall' = [op |-> "removeState", action |-> Undefined, id |-> calls,
                     kind |-> "return"]
    /\ error' = "none"
    /\ UNCHANGED <<objs, initial, currentState, previousState, cancelled,
                   transitionComplete, actionQueue, history, frameVars,
                   TransitionGhosts, calls, lastDequeued, lastDropped, commits, leftBefore>>
    /\ Returned

\* ------------------------------------------------------------ handlers
StateWindows == {"exitState", "enterState", "changeState"}
MachineWindows == {"exitMachine", "enterMachine", "changeMachine"}
Windows == StateWindows \cup MachineWindows

\* A listener runs in the dispatch that is executing: a callback that create()
\* subscribed to the State's channel, or a listener of the machine's channel.
InHandler ==
    CASE pc = "exitState" -> objs[currentState].onExit
      [] pc = "enterState" -> objs[nextState].onEnter
      [] pc = "changeState" -> objs[nextState].onChange
      [] pc \in MachineWindows -> TRUE
      [] OTHER -> FALSE

\* action(a, d) called from a handler
HandlerAction(a, d) ==
    /\ InHandler
    /\ calls < MaxCalls
    /\ transitionComplete \/ Len(actionQueue) < MaxQueue
    /\ calls' = calls + 1
    /\ LET r == actionResult(actionQueue, a, d, calls + 1)
       IN  /\ Apply(r, pc, a, d)
           /\ error' = IF r.kind = "throw" THEN "TypeError" ELSE error
    /\ UNCHANGED <<outerCall, lastDequeued, lastDropped, commits, leftBefore>>
    /\ Returned

\* cancel() called from a handler
HandlerCancel ==
    /\ InHandler
    /\ cancelled' = TRUE
    /\ cancelIn' = cancelIn \cup {pc}
    /\ UNCHANGED <<objs, states, initial, currentState, previousState,
                   transitionComplete, actionQueue, history, frameVars,
                   trace, inFlight, outcome, startCur, startPrev, startHist,
                   calls, outerCall, error,
                   lastDequeued, lastDropped, commits, leftBefore, startReturned>>

\* removeState(stateName) called from a handler
HandlerRemoveState(stateName) ==
    /\ InHandler
    /\ states' = removeState(states, stateName)
    /\ UNCHANGED <<objs, initial, currentState, previousState, cancelled,
                   transitionComplete, actionQueue, history, frameVars,
                   trace, inFlight, outcome, startCur, startPrev, startHist,
                   cancelIn, calls, outerCall, error,
                   lastDequeued, lastDropped, commits, leftBefore, startReturned>>

\* ------------------------------------------------------------ _transitionTo
Dispatch(note) == trace' = Append(trace, note)

\* A transition stops at a checkpoint: the flags are reset and the queue is
\* processed next.
Stop(how) ==
    /\ transitionComplete' = TRUE
    /\ cancelled' = FALSE
    /\ pc' = "drain"
    /\ outcome' = how
    /\ inFlight' = inFlight - 1
    /\ UNCHANGED <<currentState, previousState, history, trace, commits, leftBefore>>

\* The machine's exit notification handing over the state being entered.
MachineExitNote_NextState == Note("machine", "exit", NoState, nextState, data, action)

\* The notification of this._onExit.dispatch(this._currentState, data, action)
MachineExitNote == Note("machine", "exit", NoState, currentState, data, action)

\* this._onExit.dispatch(this._currentState, data, action)
ExitMachine ==
    /\ pc = "exitState"
    /\ pc' = "exitMachine"
    /\ Dispatch(MachineExitNote)
    /\ UNCHANGED <<machineVars, nextState, data, action, inFlight, outcome,
                   startCur, startPrev, startHist, cancelIn, calls, outerCall,
                   error, lastDequeued, lastDropped, commits, leftBefore, startReturned>>

\* The checkpoint after the exit notifications, then
\* nextState.onEnter.dispatch(nextState, data, action)
CheckpointExit ==
    /\ pc = "exitMachine"
    /\ IF CancelledOnExit(cancelled)
       THEN Stop("cancelledOnExit")
       ELSE /\ pc' = "enterState"
            /\ Dispatch(Note("state", "enter", nextState, nextState, data, action))
            /\ UNCHANGED <<currentState, previousState, history, cancelled,
                           transitionComplete, inFlight, outcome, commits, leftBefore>>
    /\ UNCHANGED <<objs, states, initial, actionQueue, nextState, data, action,
                   startCur, startPrev, startHist, cancelIn, calls, outerCall,
                   error, lastDequeued, lastDropped, startReturned>>

\* this._onEnter.dispatch(nextState, data, action)
EnterMachine ==
    /\ pc = "enterState"
    /\ pc' = "enterMachine"
    /\ Dispatch(Note("machine", "enter", NoState, nextState, data, action))
    /\ UNCHANGED <<machineVars, nextState, data, action, inFlight, outcome,
                   startCur, startPrev, startHist, cancelIn, calls, outerCall,
                   error, lastDequeued, lastDropped, commits, leftBefore, startReturned>>

NameOf(id) == IF id = NoState THEN Null ELSE objs[id].name

\* A commit that records the state entered instead of the state left.
HistoryEntry_Entered(prev) == objs[nextState].name

\* The name pushed onto history at a commit.
HistoryEntry(prev) == objs[prev].name

\* A commit that leaves previousState as it was.
CommitPrevious_Kept == previousState

\* this._previousState = this._currentState, when a state is being left
CommitPrevious == currentState

\* A commit that looks the target up in the registry again.
CommitTarget_Registered == states[objs[nextState].name]

\* this._currentState = nextState
CommitTarget == nextState

\* The checkpoint after the enter notifications, then the commit and
\* nextState.onChange.dispatch(this._currentState, data, action)
CheckpointEnter ==
    /\ pc = "enterMachine"
    /\ IF CancelledOnEnter(cancelled)
       THEN Stop("cancelledOnEnter")
       ELSE /\ IF currentState # NoState
               THEN /\ previousState' = CommitPrevious
                    /\ history' = Append(history, HistoryEntry(currentState))
               ELSE UNCHANGED <<previousState, history>>
            /\ commits' = commits + 1
            /\ leftBefore' = IF commits > 0
                             THEN Append(leftBefore, NameOf(currentState))
                             ELSE leftBefore
            /\ currentState' = CommitTarget
            /\ pc' = "changeState"
            /\ Dispatch(Note("state", "change", nextState, nextState, data, action))
            /\ UNCHANGED <<cancelled, transitionComplete, inFlight, outcome>>
    /\ UNCHANGED <<objs, states, initial, actionQueue, nextState, data, action,
                   startCur, startPrev, startHist, cancelIn, calls, outerCall,
                   error, lastDequeued, lastDropped, startReturned>>

\* this._onChange.dispatch(this._currentState, data, action)
ChangeMachine ==
    /\ pc = "changeState"
    /\ pc' = "changeMachine"
    /\ Dispatch(Note("machine", "change", NoState, currentState, data, action))
    /\ UNCHANGED <<machineVars, nextState, data, action, inFlight, outcome,
                   startCur, startPrev, startHist, cancelIn, calls, outerCall,
                   error, lastDequeued, lastDropped, commits, leftBefore, startReturned>>

\* A _transitionTo that forgets the flag at the end of a committed transition.
CompletedFlag_Forgotten == transitionComplete

\* this._transitionComplete = true, at the end of a committed transition
CompletedFlag == TRUE

\* The end of a committed transition.
Complete ==
    /\ pc = "changeMachine"
    /\ transitionComplete' = CompletedFlag
    /\ pc' = "drain"
    /\ outcome' = "committed"
    /\ inFlight' = inFlight - 1
    /\ UNCHANGED <<objs, states, initial, currentState, previousState, cancelled,
                   actionQueue, history, nextState, data, action, trace,
                   startCur, startPrev, startHist, cancelIn, calls, outerCall,
                   error, lastDequeued, lastDropped, commits, leftBefore, startReturned>>

\* this._actionQueue.shift()
QueueShift(q) == [head |-> Head(q), rest |-> Tail(q)]

\* A drain that resolves an entry against the state left last.
DrainTarget_Previous(a) ==
    IF previousState = NoState THEN Undefined ELSE getTarget(objs[previousState], a)

\* this._currentState.getTarget(stateEvent.action), in _processActionQueue
DrainTarget(a) == getTarget(objs[currentState], a)

\* _processActionQueue: one round.  With the queue empty the outermost call
\* returns; an entry the current state has no target for is dropped and the
\* next round follows; any other entry is handed to action().
ProcessActionQueue ==
    /\ pc = "drain"
    /\ IF Len(actionQueue) > 0
       THEN LET sh == QueueShift(actionQueue)
                stateEvent == sh.head
            IN  /\ lastDequeued' = stateEvent.id
                /\ IF currentState = NoState
                   THEN /\ actionQueue' = sh.rest
                        /\ pc' = "idle"
                        /\ error' = "TypeError"
                        /\ lastDropped' = FALSE
                        /\ UNCHANGED <<objs, states, initial, currentState,
                                       previousState, cancelled, transitionComplete,
                                       history, nextState, data, action,
                                       TransitionGhosts>>
                   ELSE IF ~Truthy(DrainTarget(stateEvent.action))
                   THEN /\ actionQueue' = sh.rest
                        /\ lastDropped' = TRUE
                        /\ UNCHANGED <<objs, states, initial, currentState,
                                       previousState, cancelled, transitionComplete,
                                       history, frameVars, TransitionGhosts, error>>
                   ELSE LET r == actionResult(sh.rest, stateEvent.action,
                                              stateEvent.data, stateEvent.id)
                        IN  /\ Apply(r, "idle", stateEvent.action, stateEvent.data)
                            /\ error' = IF r.kind = "throw" THEN "TypeError" ELSE error
                            /\ lastDropped' = FALSE
       ELSE /\ pc' = "idle"
            /\ UNCHANGED <<machineVars, nextState, data, action, TransitionGhosts,
                           error, lastDequeued, lastDropped>>
    /\ UNCHANGED <<calls, outerCall, commits, leftBefore>>
    /\ Returned

\* ------------------------------------------------------------ specification
\* A constructor that sets the flag.
InitialComplete_True == TRUE

\* this._transitionComplete = false, in the constructor
InitialComplete == FALSE

\* new StateMachine(), then create(configs) for one of the descriptor arrays.
Init ==
    /\ \E configs \in Configs :
         LET m == createAll(EmptyMachine, configs)
         IN  /\ objs = m.objs
             /\ states = m.states
             /\ initial = m.initial
    /\ currentState = NoState
    /\ previousState = NoState
    /\ cancelled = FALSE
    /\ transitionComplete = InitialComplete
    /\ actionQueue = <<>>
    /\ history = <<>>
    /\ pc = "idle"
    /\ nextState = NoState
    /\ data = Null
    /\ action = Undefined
    /\ trace = <<>>
    /\ inFlight = 0
    /\ outcome = "none"
    /\ startCur = NoState
    /\ startPrev = NoState
    /\ startHist = <<>>
    /\ cancelIn = {}
    /\ calls = 0
    /\ outerCall = [op |-> "none", action |-> Undefined, id |-> 0, kind |-> "return"]
    /\ error = "none"
    /\ lastDequeued = 0
    /\ lastDropped = FALSE
    /\ commits = 0
    /\ leftBefore = <<>>
    /\ startReturned = FALSE

Next ==
    \/ Start
    \/ \E a \in Actions, d \in Data : Action(a, d)
    \/ Cancel
    \/ \E n \in Names : RemoveState(n)
    \/ \E a \in Actions, d \in Data : HandlerAction(a, d)
    \/ HandlerCancel
    \/ \E n \in Names : HandlerRemoveState(n)
    \/ ExitMachine
    \/ CheckpointExit
    \/ EnterMachine
    \/ CheckpointEnter
    \/ ChangeMachine
    \/ Complete
    \/ ProcessActionQueue

Spec == Init /\ [][Next]_vars

\* ------------------------------------------------------------ configuration
\* A second specification: a machine is constructed empty and configured call
\* by call, with create(config) and with addTransition() on its States, before
\* it is started and run for a few calls.
\* The most calls of start() and action() after the configuration.
MaxConfigCalls == 2
\* The most addTransition calls noted on one State.
MaxTransitions == 2

\* The descriptors create() is called with.
Descriptors ==
    { Desc(n, trs, AllCallbacks, ini) :
        n \in Names,
        trs \in { <<>>, <<T("a", "s2")>> },
        ini \in BOOLEAN }

\* state.addTransition(a, target), the call noted after the descriptor's own.
Registered(state, a, target) ==
    [addTransition(state, a, target) EXCEPT
        !.config.transitions = Append(@, T(a, target))]

\* new StateMachine()
InitFresh ==
    /\ objs = EmptyMachine.objs
    /\ states = EmptyMachine.states
    /\ initial = EmptyMachine.initial
    /\ currentState = NoState
    /\ previousState = NoState
    /\ cancelled = FALSE
    /\ transitionComplete = InitialComplete
    /\ actionQueue = <<>>
    /\ history = <<>>
    /\ pc = "idle"
    /\ nextState = NoState
    /\ data = Null
    /\ action = Undefined
    /\ trace = <<>>
    /\ inFlight = 0
    /\ outcome = "none"
    /\ startCur = NoState
    /\ startPrev = NoState
    /\ startHist = <<>>
    /\ cancelIn = {}
    /\ calls = 0
    /\ outerCall = [op |-> "none", action |-> Undefined, id |-> 0, kind |-> "return"]
    /\ error = "none"
    /\ lastDequeued = 0
    /\ lastDropped = FALSE
    /\ commits = 0
    /\ leftBefore = <<>>
    /\ startReturned = FALSE

\* create(config) on a machine that has not been used yet
Create(config) ==
    /\ Idle
    /\ calls = 0
    /\ LET m == create([objs |-> objs, states |-> states, initial |-> initial],
                       config)
       IN  /\ objs' = m.objs
           /\ states' = m.states
           /\ initial' = m.initial
    /\ UNCHANGED <<currentState, previousState, cancelled, transitionComplete,
                   actionQueue, history, frameVars, ghostVars>>

\* getState(stateName).addTransition(a, target) on a machine not used yet
AddTransition(stateName, a, target) ==
    /\ Idle
    /\ calls = 0
    /\ states[stateName] # NoState
    /\ Len(objs[states[stateName]].config.transitions) < MaxTransitions
    /\ objs' = [objs EXCEPT ![states[stateName]] = Registered(@, a, target)]
    /\ UNCHANGED <<states, initial, currentState, previousState, cancelled,
                   transitionComplete, actionQueue, history, frameVars,
                   ghostVars>>

ConfigStart == calls < MaxConfigCalls /\ Start

ConfigAction(a) == calls < MaxConfigCalls /\ Action(a, "d1")

NextConfig ==
    \/ \E config \in Descriptors : Create(config)
    \/ \E n \in Names, target \in Names : AddTransition(n, "a", target)
    \/ ConfigStart
    \/ \E a \in Actions : ConfigAction(a)
    \/ HandlerCancel
    \/ ExitMachine
    \/ CheckpointExit
    \/ EnterMachine
    \/ CheckpointEnter
    \/ ChangeMachine
    \/ Complete
    \/ ProcessActionQueue

SpecConfig == InitFresh /\ [][NextConfig]_vars

\* ------------------------------------------------------------ claims
ExitWindows == {"exitState", "exitMachine"}
EnterWindows == {"enterState", "enterMachine"}
Stopped == {"cancelledOnExit", "cancelledOnEnter"}

\* A step in which a handler calls action(): the only call of start() or
\* action() that is made while a dispatch executes.
HandlerSubmits == pc \in Windows /\ calls' = calls + 1

\* A step in which a transition begins.
BeginsTransition == outcome' = "running" /\ (outcome # "running" \/ inFlight' > inFlight)

\* C1: at most one transition is in flight; an action() call made from a
\* handler of a transition in progress is appended to the tail of actionQueue
\* and returns, dispatching nothing and leaving currentState, previousState and
\* history alone; a transition begins only when no other is in flight, after the
\* one before it stopped at a checkpoint or committed and completed.
C1_ReentrantActionsAreQueued ==
    [][ /\ inFlight' <= 1
        /\ HandlerSubmits =>
              /\ Len(actionQueue') = Len(actionQueue) + 1
              /\ SubSeq(actionQueue', 1, Len(actionQueue)) = actionQueue
              /\ actionQueue'[Len(actionQueue) + 1].id = calls'
              /\ trace' = trace
              /\ pc' = pc
              /\ currentState' = currentState
              /\ previousState' = previousState
              /\ history' = history
        /\ BeginsTransition =>
              /\ inFlight = 0
              /\ pc \in {"idle", "drain"}
              /\ pc = "drain" => outcome \in Stopped \cup {"committed"}
      ]_vars

\* A handler of a transition in progress has submitted an action, which waits
\* in the queue while the dispatch goes on.
C1_Witness ==
    /\ pc \in Windows
    /\ inFlight = 1
    /\ actionQueue # <<>>
    /\ actionQueue[Len(actionQueue)].id > outerCall.id

\* C2: the queue keeps submission order and is taken from its head: the
\* entries of actionQueue are in the order they were submitted, every entry
\* still queued was submitted after the entry dequeued last, and an entry is
\* dequeued only when no transition is in flight, so the notifications of one
\* replayed action are all dispatched before the next is applied.
C2_QueueIsFifo ==
    [][ /\ \A i \in 1..(Len(actionQueue') - 1) :
              actionQueue'[i].id < actionQueue'[i + 1].id
        /\ \A i \in 1..Len(actionQueue') : actionQueue'[i].id > lastDequeued'
        /\ lastDequeued' # lastDequeued =>
              /\ pc = "drain"
              /\ inFlight = 0
              /\ lastDequeued' = Head(actionQueue).id
              /\ actionQueue' = Tail(actionQueue)
      ]_vars

\* Two actions were submitted from handlers of one transition; the first has
\* been dequeued and its transition is in progress, and one of its handlers has
\* submitted a further action, now behind the one still waiting.
C2_Witness ==
    /\ pc \in Windows
    /\ Len(actionQueue) = 2
    /\ outerCall.id < lastDequeued
    /\ actionQueue[1].id = lastDequeued + 1
    /\ actionQueue[2].id = lastDequeued + 2

\* C3: a committed transition from a current state S to a target T has
\* dispatched exactly S.onExit, the machine's onExit, T.onEnter, the machine's
\* onEnter, T.onChange, the machine's onChange, in this order; the two
\* notifications of a kind carry the same state, data and action.
C3_NotificationOrder ==
    (outcome = "committed" /\ startCur # NoState) =>
        trace = << Note("state", "exit", startCur, startCur, data, action),
                   Note("machine", "exit", NoState, startCur, data, action),
                   Note("state", "enter", nextState, nextState, data, action),
                   Note("machine", "enter", NoState, nextState, data, action),
                   Note("state", "change", nextState, nextState, data, action),
                   Note("machine", "change", NoState, nextState, data, action) >>

\* A transition between two different states has committed.
C3_Witness ==
    /\ outcome = "committed"
    /\ startCur # NoState
    /\ startCur # nextState
    /\ currentState = nextState

\* cancel() was called from an onExit or onEnter handler of the latest transition.
CancelledByHandler == cancelIn \cap (ExitWindows \cup EnterWindows) # {}

\* C4: a transition in which an onExit or onEnter handler called cancel()
\* stops at a checkpoint with currentState, previousState and history as they
\* were when it began; previousState changes only at a commit.
C4_CancelLeavesStateUnchanged ==
    [][ /\ CancelledByHandler' =>
              /\ currentState' = startCur'
              /\ previousState' = startPrev'
              /\ history' = startHist'
              /\ outcome' \in Stopped \cup {"running"}
        /\ previousState' # previousState =>
              /\ pc = "enterMachine"
              /\ pc' = "changeState"
              /\ commits' = commits + 1
              /\ ~CancelledByHandler
      ]_vars

\* A transition out of a state with a history has just stopped at the
\* checkpoint after its enter notifications, cancelled by a handler.
C4_Witness ==
    /\ pc = "drain"
    /\ outcome = "cancelledOnEnter"
    /\ CancelledByHandler
    /\ startCur # NoState
    /\ startCur # nextState
    /\ history # <<>>

Kinds(tr) == {tr[i].kind : i \in 1..Len(tr)}

\* C5: cancel() called in an onExit handler keeps the target's onEnter and
\* onChange (the State's and the machine's) from being dispatched; cancel()
\* called in an onEnter handler comes after both onExit notifications and keeps
\* onChange and the commit from happening.
C5_CancelPreventsLaterNotifications ==
    /\ cancelIn \cap ExitWindows # {} =>
          /\ Kinds(trace) \subseteq {"exit"}
          /\ currentState = startCur
    /\ cancelIn \cap EnterWindows # {} =>
          /\ "change" \notin Kinds(trace)
          /\ currentState = startCur
          /\ startCur # NoState =>
                /\ Len(trace) >= 3
                /\ trace[1] = Note("state", "exit", startCur, startCur, data, action)
                /\ trace[2] = Note("machine", "exit", NoState, startCur, data, action)
    /\ (cancelIn \cap (ExitWindows \cup EnterWindows) # {} /\ pc \in {"idle", "drain"}) =>
          outcome \in Stopped

\* A transition cancelled by the State's own onExit handler has stopped.
C5_Witness ==
    /\ "exitState" \in cancelIn
    /\ outcome = "cancelledOnExit"
    /\ Len(trace) = 2

\* C6 (as claimed): when an outermost start() or action() call on a machine
\* whose start has committed returns, actionQueue is empty.
C6_QueueDrainedOnReturn ==
    (pc = "idle" /\ outerCall.op \in {"start", "action"} /\ error = "none"
       /\ commits > 0)
        => actionQueue = <<>>

\* A step in which the outermost caller calls action(A) on an idle started
\* machine whose current state has no transition for A.
InvalidActionCall ==
    /\ pc = "idle"
    /\ calls' = calls + 1
    /\ outerCall'.op = "action"
    /\ transitionComplete
    /\ currentState # NoState
    /\ ~Truthy(getTarget(objs[currentState], outerCall'.action))

\* C7: action(A) on an idle started machine whose current state has no
\* transition for A changes none of currentState, previousState and history,
\* dispatches nothing and raises nothing.
C7_InvalidActionIsNoOp ==
    [][ InvalidActionCall =>
            /\ currentState' = currentState
            /\ previousState' = previousState
            /\ history' = history
            /\ trace' = trace
            /\ inFlight' = inFlight
            /\ pc' = "idle"
            /\ error' = "none"
      ]_vars

\* The outermost caller's latest call was an action the current state has no
\* transition for, made on a machine that has gone through a transition.
C7_Witness ==
    /\ pc = "idle"
    /\ outerCall.op = "action"
    /\ outerCall.kind = "return"
    /\ commits > 1
    /\ error = "none"
    /\ ~Truthy(getTarget(objs[currentState], outerCall.action))

\* C8: after the start and N further committed transitions, history has N
\* entries, the i-th being the name of the state that was current just before
\* the i-th of them; cancelled transitions and invalid actions add none.
C8_HistoryOfCommits ==
    /\ commits = 0 => history = <<>>
    /\ commits > 0 =>
          /\ Len(history) = commits - 1
          /\ history = leftBefore

\* Two transitions have committed after the start, leaving different states,
\* and the latest transition was cancelled.
C8_Witness ==
    /\ Len(history) = 2
    /\ history[1] # history[2]
    /\ outcome \in Stopped
    /\ pc = "idle"

\* The transition of a start() on a machine that has no current state yet has
\* ended, committed or stopped, and the queue is about to be processed.
StartTransitionEnded ==
    /\ pc = "drain"
    /\ action = Undefined
    /\ startCur = NoState

ChangeNotes(channel) ==
    {i \in 1..Len(trace) : trace[i].kind = "change" /\ trace[i].channel = channel}

\* C9 (as claimed): the transition of start() commits to the initial state and
\* dispatches exactly one onChange on that state and one on the machine, with
\* no originating action.
C9_StartCommitsToInitial ==
    StartTransitionEnded =>
        /\ currentState = initial
        /\ Cardinality(ChangeNotes("state")) = 1
        /\ Cardinality(ChangeNotes("machine")) = 1
        /\ \A i \in ChangeNotes("state") \cup ChangeNotes("machine") :
              trace[i].state = initial /\ trace[i].action = Undefined

\* C10 (as claimed): once a start() call has returned without raising,
\* currentState is not null.
C10_CurrentStateNonNull ==
    startReturned => currentState # NoState

\* C11 (as claimed): start() called while the registry holds no state raises
\* the "no states defined" error and changes none of currentState,
\* previousState, history and actionQueue, and dispatches nothing.
C11_StartOnEmptyRegistryRaises ==
    [][ (pc = "idle" /\ calls' = calls + 1 /\ outerCall'.op = "start"
           /\ getTotal([states |-> states]) = 0)
        => /\ error' = "NoStates"
           /\ UNCHANGED <<currentState, previousState, history, actionQueue, trace>>
      ]_vars

ChangeWindows == {"changeState", "changeMachine"}

\* A step in which cancel() is called outside the exit and enter dispatches of
\* a transition: by the outermost caller, or from an onChange handler.
StrayCancel ==
    \/ pc = "idle" /\ pc' = "idle" /\ outerCall'.op = "cancel"
    \/ pc \in ChangeWindows /\ cancelIn' # cancelIn

\* C12: cancel() called on an idle machine, before start() or from an onChange
\* handler changes none of currentState, previousState and history, and cancels
\* no transition: a transition stops at a checkpoint only when cancel() was
\* called from one of its own onExit or onEnter handlers.
C12_StrayCancelIsNoOp ==
    [][ /\ outcome' \in Stopped => CancelledByHandler'
        /\ StrayCancel =>
              /\ cancelled'
              /\ UNCHANGED <<currentState, previousState, history, pc, trace,
                             outcome, actionQueue>>
      ]_vars

\* An onChange handler called cancel(); the transition has committed and
\* completed, and the flag is still set on the idle machine.
C12_Witness ==
    /\ pc = "idle"
    /\ cancelIn \cap ChangeWindows # {}
    /\ cancelIn \cap (ExitWindows \cup EnterWindows) = {}
    /\ outcome = "committed"
    /\ cancelled
    /\ history # <<>>

\* A step of the drain that shifts an entry off the queue.
Dequeues == lastDequeued' # lastDequeued

\* C15: an entry shifted off the queue is resolved against the state that is
\* current at that moment: with no transition there for its action it is
\* dropped for good and the drain goes on; with a transition to a registered
\* state, that transition begins with the entry's action and data.
C15_DrainResolvesAgainstCurrentState ==
    [][ (Dequeues /\ currentState # NoState) =>
          LET e == Head(actionQueue)
              target == getTarget(objs[currentState], e.action)
          IN  /\ actionQueue' = Tail(actionQueue)
              /\ ~Truthy(target) =>
                    /\ pc' = "drain"
                    /\ lastDropped'
                    /\ UNCHANGED <<currentState, previousState, history, trace,
                                   outcome>>
              /\ (Truthy(target) /\ states[target] # NoState) =>
                    /\ outcome' = "running"
                    /\ nextState' = states[target]
                    /\ action' = e.action
                    /\ data' = e.data
      ]_vars

\* A transition between two states has committed, the entry shifted after it
\* was dropped, and the drain goes on with the entries behind it.
C15_Witness ==
    /\ pc = "drain"
    /\ lastDropped
    /\ actionQueue # <<>>
    /\ outcome = "committed"
    /\ startCur # NoState
    /\ startCur # currentState

\* C16 (as claimed): in every reachable state transitionComplete is false
\* exactly while a transition is executing.
C16_FlagFalseExactlyInTransition ==
    transitionComplete = (inFlight = 0)

\* C16 (amended): until the first transition begins transitionComplete is
\* false although no transition is executing; from then on it is false exactly
\* while a transition is executing.
C16_FlagFalseInTransitionOnceStarted ==
    /\ outcome = "none" => (~transitionComplete /\ inFlight = 0)
    /\ outcome # "none" => (transitionComplete = (inFlight = 0))

\* A transition is executing on a machine that has committed one before.
C16_Witness ==
    /\ pc \in Windows
    /\ ~transitionComplete
    /\ commits > 0

\* The callbacks the descriptor of a State carried.
Given(id) == objs[id].config.callbacks

\* C17 (as claimed): in the dispatch of a State's onExit, onEnter or onChange
\* the callback of that kind the State's descriptor carried is a listener.
C17_DescriptorCallbacksInvoked ==
    /\ (pc = "exitState" /\ "onExit" \in Given(currentState)) => InHandler
    /\ (pc = "enterState" /\ "onEnter" \in Given(nextState)) => InHandler
    /\ (pc = "changeState" /\ "onChange" \in Given(nextState)) => InHandler

\* The State is not the one the registry holds under its name.
Unregistered(id) == id # NoState /\ states[objs[id].name] # id

\* The notifications of a whole transition from state from to state to.
FullTrace(from, to, d, a) ==
    (IF from = NoState
     THEN <<>>
     ELSE << Note("state", "exit", from, from, d, a),
             Note("machine", "exit", NoState, from, d, a) >>)
    \o << Note("state", "enter", to, to, d, a),
          Note("machine", "enter", NoState, to, d, a),
          Note("state", "change", to, to, d, a),
          Note("machine", "change", NoState, to, d, a) >>

IsPrefix(p, q) == Len(p) <= Len(q) /\ p = SubSeq(q, 1, Len(p))

\* C18: a transition whose source or target State is no longer in the
\* registry goes on as any other: its notifications are dispatched in order
\* and, unless one of its onExit or onEnter handlers cancels it, it commits
\* with currentState the target State.
C18_RemovalLeavesTransitionAlone ==
    (outcome # "none" /\ (Unregistered(startCur) \/ Unregistered(nextState))) =>
        /\ IsPrefix(trace, FullTrace(startCur, nextState, data, action))
        /\ (outcome # "running" /\ ~CancelledByHandler) =>
              /\ outcome = "committed"
              /\ currentState = nextState
              /\ trace = FullTrace(startCur, nextState, data, action)

\* A transition begun by an action has committed to a State that a handler
\* removed from the registry while the transition was in flight.
C18_Witness ==
    /\ pc = "drain"
    /\ outcome = "committed"
    /\ action # Undefined
    /\ Unregistered(nextState)
    /\ currentState = nextState

\* C19: until start() is called no action is resolved or dispatched: every
\* action() call is in actionQueue, in submission order; when the transition
\* of the first start() has committed, these entries are at the head of the
\* queue, in submission order, for the drain to replay.
C19_ActionsBeforeStartAreQueued ==
    /\ (outcome = "none" /\ initial # NoState) =>
          /\ Len(actionQueue) = calls
          /\ \A i \in 1..Len(actionQueue) : actionQueue[i].id = i
          /\ currentState = NoState
          /\ trace = <<>>
          /\ lastDequeued = 0
          /\ error = "none"
    /\ (StartTransitionEnded /\ outcome = "committed" /\ ~startReturned
          /\ lastDequeued = 0) =>
          /\ Len(actionQueue) >= outerCall.id - 1
          /\ \A i \in 1..(outerCall.id - 1) : actionQueue[i].id = i
          /\ currentState = initial

\* Two actions were submitted before the first start(), whose transition has
\* committed; the drain is about to replay them.
C19_Witness ==
    /\ StartTransitionEnded
    /\ outcome = "committed"
    /\ ~startReturned
    /\ lastDequeued = 0
    /\ outerCall.id = 3
    /\ Len(actionQueue) >= 2

\* C20: history is empty exactly when previousState is null, and otherwise
\* its last entry is the name of previousState.
C20_PreviousStateAgreesWithHistory ==
    /\ (history = <<>>) = (previousState = NoState)
    /\ previousState # NoState => history[Len(history)] = objs[previousState].name

\* Two transitions have committed after the start, the latest between two
\* different states.
C20_Witness ==
    /\ Len(history) >= 2
    /\ previousState # currentState
    /\ pc = "idle"

\* The target of the first addTransition call for action a among the calls
\* made on a State, in order.
FirstTarget(registrations, a) ==
    LET made == {i \in 1..Len(registrations) : registrations[i].action = a}
    IN  IF made = {}
        THEN Undefined
        ELSE registrations[CHOOSE i \in made : \A j \in made : i <= j].target

\* C13: addTransition is first-write-wins: getTarget(A) of a State is the
\* target of the first addTransition(A, ...) call made on it, whatever calls
\* followed, and a transition begun by action A from that State is to the State
\* registered under that first target.
C13_AddTransitionFirstWriteWins ==
    /\ \A i \in 1..Len(objs), a \in Actions :
          getTarget(objs[i], a) = FirstTarget(objs[i].config.transitions, a)
    /\ (outcome = "running" /\ action # Undefined /\ startCur # NoState) =>
          nextState = states[FirstTarget(objs[startCur].config.transitions, action)]

\* A transition is running by an action that was given two different targets
\* on the State it leaves.
C13_Witness ==
    /\ outcome = "running"
    /\ action # Undefined
    /\ startCur # NoState
    /\ \E i, j \in 1..Len(objs[startCur].config.transitions) :
          LET r == objs[startCur].config.transitions
          IN  /\ i < j
              /\ r[i].action = action
              /\ r[j].action = action
              /\ r[i].target # r[j].target
              /\ nextState = states[r[i].target]

\* The State the create() calls made so far leave as the initial one.
ExpectedInitial ==
    LET flagged == {i \in 1..Len(objs) : objs[i].config.initial}
    IN  IF objs = <<>> THEN NoState
        ELSE IF flagged = {} THEN 1
        ELSE CHOOSE i \in flagged : \A j \in flagged : j <= i

\* The transition start() began is the latest one.
StartTransition == outerCall.op = "start" /\ outcome # "none" /\ action = Undefined

\* C14: after any sequence of create() calls the initial state is the last
\* registered State whose descriptor carried initial: true, or the first
\* registered State if none did; the transition of start() is to that State
\* and, once it has committed, that State is the current one.
C14_InitialIsLastFlaggedElseFirst ==
    /\ initial = ExpectedInitial
    /\ StartTransition =>
          /\ nextState = ExpectedInitial
          /\ outcome = "committed" => currentState = ExpectedInitial

\* Two States are registered, the first with initial: true and the second
\* without, or the second with it: start() has committed to the expected one.
C14_Witness ==
    /\ Len(objs) = 2
    /\ objs[1].config.initial # objs[2].config.initial
    /\ StartTransition
    /\ outcome = "committed"
    /\ currentState = ExpectedInitial
    /\ pc = "idle"

====
